---- MODULE Spec2Model ----
(***************************************************************************)
(* Event-driven moving-average crossover strategy: the signal engine       *)
(* (engine.py, LiveMaStrategy), the polling loop with exponential backoff  *)
(* (engine.py, feed_loop / run_live) and the performance tracker           *)
(* (metrics.py, PerformanceTracker).                                       *)
(*                                                                         *)
(* Numbers.  Prices are integers; a moving average is kept as the pair     *)
(* (sum, n) and two averages are compared by cross-multiplication, which   *)
(* is the order of the exact quotients np.mean computes on such inputs.    *)
(* Percentages and latencies that the code computes by float division are  *)
(* kept as exact fractions [num, den].                                     *)
(*                                                                         *)
(* Time.  time.time() is the variable now, in seconds, advanced by Tick    *)
(* in steps of one heartbeat interval.  The poller's sleeps are shorter    *)
(* than a step: the duration asked of asyncio.sleep is recorded in wait,   *)
(* and the sleep ends at some later point.                                 *)
(*                                                                         *)
(* Files.  A log file is the sequence of its lines; a line is a record     *)
(* with a flag wf telling whether it parses.  The tracker only ever writes *)
(* well-formed lines.  The log directory is assumed writable.              *)
(***************************************************************************)
EXTENDS Integers, Sequences, FiniteSets, TLC

\* ------------------------------------------------------------- bounds
MaxPolls == 7          \* fetch attempts completed in one run
MaxSamples == 4        \* latency samples a tracker records in one run
MaxTicks == 1          \* clock steps in one run
MaxReports == 1        \* hourly reports printed in one run

\* Prices the exchange may quote, and the (fast, slow) windows an engine is built with.
Prices == {1, 2, 3}
Windows == {<<1, 2>>, <<2, 3>>}
\* Resident-set sizes psutil may report.
MemoryReadings == {4}

\* -------------------------------------------------- program constants
delay == 1                  \* feed_loop(delay=1)
max_retries == 5            \* feed_loop(max_retries=5)
HeartbeatInterval == 60     \* _start_uptime_monitor(interval=60)
ExpectedInterval == 60      \* _calculate_uptime: duration / 60
SaveEvery == 100            \* measure_latency: len(latencies) % 100
window_size == 60           \* _calculate_peak_transactions(window_size=60)
SecondsPerDay == 86400      \* pd.Grouper(freq='D')

VARIABLES
    \* LiveMaStrategy
    fast, slow, prices, position, entry_price, pnl,
    \* PerformanceTracker (tracker = FALSE: run without metrics)
    tracker, latencies, transaction_times, memory_samples, trades,
    initial_memory, uptime_log, metrics_log, trades_log, hb_due,
    \* feed_loop task
    pc, retry, wait, start_time,
    \* run_live
    run, rpc, reports,
    \* dashline.py: the dictionary the callback updates
    state,
    \* the clock, and the history the properties read: attempts completed, the
    \* current run of consecutive failed fetches, the outcome of the latest
    \* iteration, the price of the call that opened the current position, and
    \* the outcome of the latest calculate_metrics call made on its own
    now, ticks, polls, streak, last, opened_at, snapshot,
    \* dashline.py: the statement of the update loop the script thread is at
    \* ("none": no dashboard, engine.py run as the main program), the values it has
    \* put on the page, and every value the dictionary has held since the loop began
    rd, shown, published

engine_vars == <<fast, slow, prices, position, entry_price, pnl>>
tracker_vars == <<tracker, latencies, transaction_times, memory_samples, trades,
                  initial_memory, uptime_log, metrics_log, trades_log, hb_due>>
poller_vars == <<pc, retry, wait, start_time>>
run_vars == <<run, rpc, reports>>
env_vars == <<now, ticks, polls, streak, last, opened_at, snapshot>>
dash_vars == <<rd, shown, published>>
vars == <<engine_vars, tracker_vars, poller_vars, run_vars, state, env_vars, dash_vars>>

\* ------------------------------------------------------------ helpers
Min(a, b) == IF a < b THEN a ELSE b
Max(a, b) == IF a > b THEN a ELSE b

RECURSIVE Pow2(_)
Pow2(n) == IF n <= 0 THEN 1 ELSE 2 * Pow2(n - 1)

RECURSIVE Sum(_)
Sum(s) ==
    IF Len(s) = 0 THEN 0
    ELSE IF Len(s) = 1 THEN s[1]
    ELSE LET h == Len(s) \div 2
         IN  Sum(SubSeq(s, 1, h)) + Sum(SubSeq(s, h + 1, Len(s)))

\* s[-n:] never taking the whole list: at most len(s) - 1 elements.
LastN_shorter(s, n) ==
    IF Len(s) = 0 THEN s
    ELSE IF n <= 0 \/ n >= Len(s) THEN SubSeq(s, 2, Len(s))
    ELSE SubSeq(s, Len(s) - n + 1, Len(s))

\* Python's s[-n:] on a list: the last n elements, all of them when n is 0 or n >= len(s).
LastN(s, n) ==
    IF n <= 0 \/ n >= Len(s) THEN s ELSE SubSeq(s, Len(s) - n + 1, Len(s))

\* deque(maxlen=m).append(x)
DequeAppend(s, x, m) ==
    IF m <= 0 THEN <<>>
    ELSE IF Len(s) >= m THEN Append(Tail(s), x) ELSE Append(s, x)

\* np.mean of a sequence of integers, as the exact fraction sum / n.
Mean(s) == [sum |-> Sum(s), n |-> Len(s)]
\* fast_ma > slow_ma taken as fast_ma >= slow_ma.
MeanGT_or_equal(a, b) == a.sum * b.n >= b.sum * a.n
MeanGT(a, b) == a.sum * b.n > b.sum * a.n
MeanLT(a, b) == a.sum * b.n < b.sum * a.n
MeanEQ(a, b) == a.sum * b.n = b.sum * a.n

None == [none |-> TRUE]

\* ------------------------------------------------- engine.py: LiveMaStrategy

\* Transition with the close of a long turned into a reversal to short.
Transition_reversing(pos, entry, p, fast_ma, slow_ma, price) ==
    IF MeanGT(fast_ma, slow_ma) /\ pos = 0 THEN
        [position |-> 1, entry_price |-> price, pnl |-> p,
         signal |-> TRUE, is_entry |-> TRUE]
    ELSE IF MeanLT(fast_ma, slow_ma) /\ pos = 1 THEN
        [position |-> -1, entry_price |-> price, pnl |-> p + (price - entry),
         signal |-> TRUE, is_entry |-> FALSE]
    ELSE IF MeanLT(fast_ma, slow_ma) /\ pos = 0 THEN
        [position |-> -1, entry_price |-> price, pnl |-> p,
         signal |-> TRUE, is_entry |-> TRUE]
    ELSE IF MeanGT(fast_ma, slow_ma) /\ pos = -1 THEN
        [position |-> 0, entry_price |-> entry, pnl |-> p + (entry - price),
         signal |-> TRUE, is_entry |-> FALSE]
    ELSE
        [position |-> pos, entry_price |-> entry, pnl |-> p,
         signal |-> FALSE, is_entry |-> FALSE]

\* Transition closing a long without raising the signal, so the close is not logged.
Transition_silent_close(pos, entry, p, fast_ma, slow_ma, price) ==
    IF MeanGT(fast_ma, slow_ma) /\ pos = 0 THEN
        [position |-> 1, entry_price |-> price, pnl |-> p,
         signal |-> TRUE, is_entry |-> TRUE]
    ELSE IF MeanLT(fast_ma, slow_ma) /\ pos = 1 THEN
        [position |-> 0, entry_price |-> entry, pnl |-> p + (price - entry),
         signal |-> FALSE, is_entry |-> FALSE]
    ELSE IF MeanLT(fast_ma, slow_ma) /\ pos = 0 THEN
        [position |-> -1, entry_price |-> price, pnl |-> p,
         signal |-> TRUE, is_entry |-> TRUE]
    ELSE IF MeanGT(fast_ma, slow_ma) /\ pos = -1 THEN
        [position |-> 0, entry_price |-> entry, pnl |-> p + (entry - price),
         signal |-> TRUE, is_entry |-> FALSE]
    ELSE
        [position |-> pos, entry_price |-> entry, pnl |-> p,
         signal |-> FALSE, is_entry |-> FALSE]

\* Transition with entry_price trailing the price while a position is held.
Transition_trailing(pos, entry, p, fast_ma, slow_ma, price) ==
    IF MeanGT(fast_ma, slow_ma) /\ pos = 0 THEN
        [position |-> 1, entry_price |-> price, pnl |-> p,
         signal |-> TRUE, is_entry |-> TRUE]
    ELSE IF MeanLT(fast_ma, slow_ma) /\ pos = 1 THEN
        [position |-> 0, entry_price |-> entry, pnl |-> p + (price - entry),
         signal |-> TRUE, is_entry |-> FALSE]
    ELSE IF MeanLT(fast_ma, slow_ma) /\ pos = 0 THEN
        [position |-> -1, entry_price |-> price, pnl |-> p,
         signal |-> TRUE, is_entry |-> TRUE]
    ELSE IF MeanGT(fast_ma, slow_ma) /\ pos = -1 THEN
        [position |-> 0, entry_price |-> entry, pnl |-> p + (entry - price),
         signal |-> TRUE, is_entry |-> FALSE]
    ELSE
        [position |-> pos, entry_price |-> price, pnl |-> p,
         signal |-> FALSE, is_entry |-> FALSE]

\* on_price, lines 44-70: the if/elif chain on (fast_ma, slow_ma, position).
\* At most one branch runs; when none does the engine holds (the last ELSE).
Transition(pos, entry, p, fast_ma, slow_ma, price) ==
    IF MeanGT(fast_ma, slow_ma) /\ pos = 0 THEN
        [position |-> 1, entry_price |-> price, pnl |-> p,
         signal |-> TRUE, is_entry |-> TRUE]
    ELSE IF MeanLT(fast_ma, slow_ma) /\ pos = 1 THEN
        [position |-> 0, entry_price |-> entry, pnl |-> p + (price - entry),
         signal |-> TRUE, is_entry |-> FALSE]
    ELSE IF MeanLT(fast_ma, slow_ma) /\ pos = 0 THEN
        [position |-> -1, entry_price |-> price, pnl |-> p,
         signal |-> TRUE, is_entry |-> TRUE]
    ELSE IF MeanGT(fast_ma, slow_ma) /\ pos = -1 THEN
        [position |-> 0, entry_price |-> entry, pnl |-> p + (entry - price),
         signal |-> TRUE, is_entry |-> FALSE]
    ELSE
        [position |-> pos, entry_price |-> entry, pnl |-> p,
         signal |-> FALSE, is_entry |-> FALSE]

\* on_price with the warm-up test off by one: it trades one sample early.
on_price_early(price) ==
    LET w == DequeAppend(prices, price, slow) IN
    IF Len(w) < slow - 1 THEN
        [prices |-> w, position |-> position, entry_price |-> entry_price,
         pnl |-> pnl, signal |-> FALSE, transaction_data |-> None, ret |-> None]
    ELSE
        LET fast_ma == Mean(LastN(w, fast))
            slow_ma == Mean(w)
            t == Transition(position, entry_price, pnl, fast_ma, slow_ma, price)
        IN  [prices |-> w, position |-> t.position, entry_price |-> t.entry_price,
             pnl |-> t.pnl, signal |-> t.signal,
             transaction_data |-> [price |-> price, is_entry |-> t.is_entry,
                                   position |-> t.position, pnl |-> t.pnl],
             ret |-> [price |-> price, fast_ma |-> fast_ma, slow_ma |-> slow_ma,
                      position |-> t.position, pnl |-> t.pnl]]

\* on_price(price) on the current engine: the new engine fields, the value returned
\* (None while the window is filling) and the transaction handed to the tracker.
on_price(price) ==
    LET w == DequeAppend(prices, price, slow) IN
    IF Len(w) < slow THEN
        [prices |-> w, position |-> position, entry_price |-> entry_price,
         pnl |-> pnl, signal |-> FALSE, transaction_data |-> None, ret |-> None]
    ELSE
        LET fast_ma == Mean(LastN(w, fast))
            slow_ma == Mean(w)
            t == Transition(position, entry_price, pnl, fast_ma, slow_ma, price)
        IN  [prices |-> w, position |-> t.position, entry_price |-> t.entry_price,
             pnl |-> t.pnl, signal |-> t.signal,
             transaction_data |-> [price |-> price, is_entry |-> t.is_entry,
                                   position |-> t.position, pnl |-> t.pnl],
             ret |-> [price |-> price, fast_ma |-> fast_ma, slow_ma |-> slow_ma,
                      position |-> t.position, pnl |-> t.pnl]]

\* ------------------------------------------- metrics.py: PerformanceTracker

\* An exact fraction with a positive denominator.
Frac(n, d) == IF d < 0 THEN [num |-> -n, den |-> -d] ELSE [num |-> n, den |-> d]

\* log_transaction labelling every record EXIT.
Transaction_always_exit(td, timestamp) ==
    [wf |-> TRUE, timestamp |-> timestamp, price |-> td.price,
     position |-> td.position, pnl |-> td.pnl, type |-> "EXIT"]

\* log_transaction: the record appended to trades and, as one row, to trade_history.csv.
Transaction(td, timestamp) ==
    [wf |-> TRUE, timestamp |-> timestamp, price |-> td.price,
     position |-> td.position, pnl |-> td.pnl,
     type |-> IF td.is_entry THEN "ENTRY" ELSE "EXIT"]

\* log_uptime: the line "<time.time()>,UP".
UptimeLine(t) == [wf |-> TRUE, ts |-> t]

\* _calculate_uptime.  raised names the exception that escapes, "" when none does.
calculate_uptime(log) ==
    IF Len(log) = 0 THEN [raised |-> "", value |-> Frac(0, 1)]
    ELSE IF \E i \in 1..Len(log) : ~log[i].wf THEN
        [raised |-> "ValueError", value |-> Frac(0, 1)]
    ELSE IF Len(log) < 2 THEN [raised |-> "", value |-> Frac(0, 1)]
    ELSE
        LET duration == log[Len(log)].ts - log[1].ts
            \* len / (duration / 60) * 100
            pct == Frac(Len(log) * ExpectedInterval * 100, duration)
        IN  IF duration = 0 THEN [raised |-> "ZeroDivisionError", value |-> Frac(0, 1)]
            ELSE IF pct.num < 100 * pct.den THEN [raised |-> "", value |-> pct]
            ELSE [raised |-> "", value |-> Frac(100, 1)]

\* min() and max() of a non-empty list.
SeqMin(s) == CHOOSE x \in {s[i] : i \in 1..Len(s)} : \A i \in 1..Len(s) : x <= s[i]
SeqMax(s) == CHOOSE x \in {s[i] : i \in 1..Len(s)} : \A i \in 1..Len(s) : s[i] <= x

\* _calculate_peak_transactions: buckets of window_size seconds that start at
\* int(start_time) and go on while the bucket's start is <= int(end_time).
calculate_peak_transactions(times, start, end) ==
    IF Len(times) = 0 THEN 0
    ELSE
        LET Starts == {start + k * window_size : k \in 0..((end - start) \div window_size)}
            Count(b) == Cardinality({i \in 1..Len(times) :
                                        b <= times[i] /\ times[i] < b + window_size})
        IN  CHOOSE c \in {Count(b) : b \in Starts} :
                \A d \in {Count(b) : b \in Starts} : d <= c

\* _calculate_sharpe_ratio: the pnl column summed per calendar day, over every day
\* from the first row's to the last row's.  The ratio itself, mean / std * sqrt(252),
\* is kept as the daily sums it is computed from; zero tells the cases that return 0
\* (an unreadable file, fewer than two days, no variance).
calculate_sharpe_ratio(log) ==
    IF \E i \in 1..Len(log) : ~log[i].wf THEN [zero |-> TRUE, daily |-> <<>>]
    ELSE
        LET Day(i) == log[i].timestamp \div SecondsPerDay
            d0 == CHOOSE d \in {Day(i) : i \in 1..Len(log)} :
                      \A e \in {Day(i) : i \in 1..Len(log)} : d <= e
            d1 == CHOOSE d \in {Day(i) : i \in 1..Len(log)} :
                      \A e \in {Day(i) : i \in 1..Len(log)} : e <= d
            Rows(d) == SelectSeq(log, LAMBDA r : r.timestamp \div SecondsPerDay = d)
            RowSum(d) == Sum([i \in 1..Len(Rows(d)) |-> Rows(d)[i].pnl])
            daily == [k \in 1..(d1 - d0 + 1) |-> RowSum(d0 + k - 1)]
        IN  IF Len(daily) < 2 \/ \A k \in 1..Len(daily) : daily[k] = daily[1]
            THEN [zero |-> TRUE, daily |-> daily]
            ELSE [zero |-> FALSE, daily |-> daily]

EmptyDict == [k \in {} |-> 0]

\* calculate_metrics on the tracker's collections and files: raised, and the dict
\* (a function on the keys that are set).
calculate_metrics_of(lat, mem, init_mem, times, uplog, tlog) ==
    LET lats == [i \in 1..Len(lat) |-> lat[i].latency]
        m1 == IF Len(lat) = 0 THEN EmptyDict
              ELSE ("avg_latency_ms" :> Frac(Sum(lats) * 1000, Len(lat)))
                @@ ("max_latency_ms" :> SeqMax(lats) * 1000)
                @@ ("min_latency_ms" :> SeqMin(lats) * 1000)
                @@ ("success_rate" :>
                        Frac(Cardinality({i \in 1..Len(lat) : lat[i].success}) * 100,
                             Len(lat)))
        up == calculate_uptime(uplog)
        m2 == "uptime_percentage" :> up.value
        m3 == IF Len(mem) = 0 THEN EmptyDict
              ELSE ("memory_usage_bytes" :> mem[Len(mem)])
                @@ ("memory_change_percentage" :>
                        Frac((mem[Len(mem)] - init_mem) * 100, init_mem))
        m4 == IF Len(times) = 0 THEN EmptyDict
              ELSE ("total_transactions" :> Len(times))
                @@ ("peak_transactions_per_minute" :>
                        calculate_peak_transactions(times, SeqMin(times), SeqMax(times)))
        m5 == IF Len(tlog) = 0 THEN EmptyDict
              ELSE "sharpe_ratio" :> calculate_sharpe_ratio(tlog)
    IN  IF up.raised # "" THEN [raised |-> up.raised, metrics |-> m1]
        ELSE [raised |-> "", metrics |-> m1 @@ m2 @@ m3 @@ m4 @@ m5]

calculate_metrics ==
    calculate_metrics_of(latencies, memory_samples, initial_memory,
                         transaction_times, uptime_log, trades_log)

\* get_report: the keys the template formats with a float format or divides raise
\* when the key is missing ('N/A' is a string).
FormattedKeys == {"avg_latency_ms", "max_latency_ms", "success_rate",
                  "uptime_percentage", "memory_usage_bytes",
                  "memory_change_percentage", "sharpe_ratio"}

get_report_of(cm) ==
    IF cm.raised # "" THEN [raised |-> cm.raised, report |-> EmptyDict]
    ELSE IF ~(FormattedKeys \subseteq DOMAIN cm.metrics)
        THEN [raised |-> "ValueError", report |-> EmptyDict]
    ELSE [raised |-> "", report |-> cm.metrics]

get_report == get_report_of(calculate_metrics)

\* measure_latency recording a sample only when the fetch returned.
measure_latency_success_only(ok, ticker_last) ==
    LET latency == now - start_time
        lat == IF ok THEN Append(latencies, [latency |-> latency, success |-> ok])
               ELSE latencies
    IN  [latencies |-> lat, metrics_log |-> metrics_log, raised |-> "",
         result |-> IF ok THEN [is_none |-> FALSE, last |-> ticker_last]
                    ELSE [is_none |-> TRUE, last |-> 0],
         latency |-> latency]

\* measure_latency saving the metrics before it appends the new sample.
measure_latency_stale(ok, ticker_last) ==
    LET latency == now - start_time
        lat == Append(latencies, [latency |-> latency, success |-> ok])
        save == Len(lat) % SaveEvery = 0
        cm == calculate_metrics_of(latencies, memory_samples, initial_memory,
                                   transaction_times, uptime_log, trades_log)
    IN  [latencies |-> lat,
         metrics_log |-> IF save /\ cm.raised = ""
                         THEN <<[timestamp |-> now, metrics |-> cm.metrics]>>
                         ELSE metrics_log,
         raised |-> IF save THEN cm.raised ELSE "",
         result |-> IF ok THEN [is_none |-> FALSE, last |-> ticker_last]
                    ELSE [is_none |-> TRUE, last |-> 0],
         latency |-> latency]

\* measure_latency(fetch_function) once the awaited fetch has returned (ok, with the
\* ticker's last price) or raised (~ok): the sample list and metrics file after the
\* call, what it returns, and the exception that escapes it ("" when none does).
measure_latency(ok, ticker_last) ==
    LET latency == now - start_time
        lat == Append(latencies, [latency |-> latency, success |-> ok])
        save == Len(lat) % SaveEvery = 0
        cm == calculate_metrics_of(lat, memory_samples, initial_memory,
                                   transaction_times, uptime_log, trades_log)
    IN  [latencies |-> lat,
         metrics_log |-> IF save /\ cm.raised = ""
                         THEN <<[timestamp |-> now, metrics |-> cm.metrics]>>
                         ELSE metrics_log,
         raised |-> IF save THEN cm.raised ELSE "",
         result |-> IF ok THEN [is_none |-> FALSE, last |-> ticker_last]
                    ELSE [is_none |-> TRUE, last |-> 0],
         latency |-> latency]

\* ------------------------------------------------------ engine.py: feed_loop

\* The duration feed_loop's except branch sleeps for.
BackoffWait(r) == delay * Pow2(Min(r, max_retries))

Init ==
    /\ \E w \in Windows : fast = w[1] /\ slow = w[2]
    /\ prices = <<>> /\ position = 0 /\ entry_price = 0 /\ pnl = 0
    /\ tracker \in BOOLEAN
    /\ latencies = <<>> /\ transaction_times = <<>> /\ trades = <<>>
    /\ \E m \in MemoryReadings :
          /\ initial_memory = m
          /\ memory_samples = IF tracker THEN <<m>> ELSE <<>>
    /\ uptime_log = <<>> /\ metrics_log = <<>> /\ trades_log = <<>> /\ hb_due = 0
    /\ pc = "load" /\ retry = 0 /\ wait = 0 /\ start_time = 0
    /\ run = "running" /\ rpc = (IF tracker THEN "sleep" ELSE "none") /\ reports = 0
    /\ state = [price |-> 0, fast_ma |-> [sum |-> 0, n |-> 1],
                slow_ma |-> [sum |-> 0, n |-> 1], position |-> 0, pnl |-> 0]
    /\ now = 0 /\ ticks = 0 /\ polls = 0 /\ streak = 0
    /\ last = [op |-> "none", fetch_raised |-> FALSE, ml_raised |-> "",
               ml_returned |-> FALSE, called |-> FALSE, price |-> 0, ret |-> None,
               signal |-> FALSE, retry_before |-> 0]
    /\ opened_at = 0
    /\ snapshot = [raised |-> "", metrics |-> EmptyDict, n |-> 0]
    /\ rd = "none" /\ shown = state /\ published = {state}

\* await exchange.load_markets() returns: retry = 0 and the first iteration starts
\* its fetch (measure_latency reads start_time).
LoadMarketsReturns ==
    /\ UNCHANGED dash_vars
    /\ run = "running" /\ pc = "load"
    /\ pc' = "fetch" /\ retry' = 0 /\ start_time' = now
    /\ UNCHANGED <<engine_vars, tracker_vars, wait, run_vars, state, env_vars>>

\* await exchange.load_markets() raises: the feed task ends with the exception,
\* gather hands it to run_until_complete, and run_async_loop ends with it.
LoadMarketsRaises ==
    /\ UNCHANGED dash_vars
    /\ run = "running" /\ pc = "load"
    /\ pc' = "failed" /\ run' = "startup_failed"
    /\ UNCHANGED <<engine_vars, tracker_vars, retry, wait, start_time, rpc, reports,
                   state, env_vars>>

\* One iteration of the while loop from the point where the awaited fetch_ticker
\* returns a ticker, up to the awaited sleep.
Iteration(price) ==
    /\ run = "running" /\ pc = "fetch"
    /\ polls' = polls + 1 /\ streak' = 0 /\ snapshot' = snapshot
    /\ UNCHANGED <<rd, shown>>
    /\ LET ml == measure_latency(TRUE, price)
           r == on_price(price)
       IN  IF tracker /\ ml.raised # "" THEN
               \* _save_metrics raised inside measure_latency: the except branch
               /\ latencies' = ml.latencies /\ metrics_log' = ml.metrics_log
               /\ pc' = "sleep_err" /\ wait' = BackoffWait(retry)
               /\ last' = [op |-> "ok", fetch_raised |-> FALSE, ml_raised |-> ml.raised,
                           ml_returned |-> FALSE, price |-> price, ret |-> None,
                           signal |-> FALSE, called |-> FALSE, retry_before |-> retry]
               /\ UNCHANGED <<engine_vars, tracker, transaction_times, memory_samples,
                              trades, initial_memory, uptime_log, trades_log, hb_due,
                              retry, start_time, run_vars, state, now, ticks, opened_at>>
           ELSE
               /\ retry' = 0
               /\ prices' = r.prices /\ position' = r.position
               /\ entry_price' = r.entry_price /\ pnl' = r.pnl
               /\ IF tracker THEN
                      /\ latencies' = ml.latencies /\ metrics_log' = ml.metrics_log
                      /\ \E m \in MemoryReadings :
                             memory_samples' = Append(memory_samples, m)
                      /\ IF r.signal THEN
                             /\ transaction_times' = Append(transaction_times, now)
                             /\ trades' = Append(trades, Transaction(r.transaction_data, now))
                             /\ trades_log' =
                                    Append(trades_log, Transaction(r.transaction_data, now))
                         ELSE UNCHANGED <<transaction_times, trades, trades_log>>
                  ELSE UNCHANGED <<latencies, metrics_log, memory_samples,
                                   transaction_times, trades, trades_log>>
               /\ state' = IF r.ret # None THEN r.ret ELSE state
               /\ pc' = "sleep_ok" /\ wait' = delay
               /\ last' = [op |-> "ok", fetch_raised |-> FALSE, ml_raised |-> "",
                           ml_returned |-> tracker, price |-> price, ret |-> r.ret,
                           signal |-> r.signal, called |-> TRUE, retry_before |-> retry]
               /\ opened_at' = IF position = 0 /\ r.position # 0 THEN price ELSE opened_at
               /\ UNCHANGED <<fast, slow, tracker, initial_memory, uptime_log, hb_due,
                              start_time, run_vars, now, ticks>>
    /\ published' = IF rd = "none" THEN published ELSE published \cup {state'}

\* Iteration within the bounds on the attempts followed.
FetchReturns(price) ==
    /\ polls < MaxPolls /\ Len(latencies) < MaxSamples
    /\ Iteration(price)

\* One iteration of the while loop from the point where the awaited fetch_ticker
\* raises, up to the awaited sleep of the except branch.
FailedIteration ==
    /\ UNCHANGED dash_vars
    /\ run = "running" /\ pc = "fetch"
    /\ polls' = polls + 1 /\ streak' = streak + 1
    /\ UNCHANGED <<opened_at, snapshot>>
    /\ LET ml == measure_latency(FALSE, 0)
       IN  IF ~tracker THEN
               \* the exception reaches feed_loop's except branch
               /\ pc' = "sleep_err" /\ wait' = BackoffWait(retry)
               /\ last' = [op |-> "fail", fetch_raised |-> TRUE, ml_raised |-> "",
                           ml_returned |-> FALSE, price |-> 0, ret |-> None,
                           signal |-> FALSE, called |-> FALSE, retry_before |-> retry]
               /\ UNCHANGED <<engine_vars, tracker_vars, retry, start_time, run_vars,
                              state, now, ticks>>
           ELSE IF ml.raised # "" THEN
               /\ latencies' = ml.latencies /\ metrics_log' = ml.metrics_log
               /\ pc' = "sleep_err" /\ wait' = BackoffWait(retry)
               /\ last' = [op |-> "fail", fetch_raised |-> TRUE, ml_raised |-> ml.raised,
                           ml_returned |-> FALSE, price |-> 0, ret |-> None,
                           signal |-> FALSE, called |-> FALSE, retry_before |-> retry]
               /\ UNCHANGED <<engine_vars, tracker, transaction_times, memory_samples,
                              trades, initial_memory, uptime_log, trades_log, hb_due,
                              retry, start_time, run_vars, state, now, ticks>>
           ELSE
               \* measure_latency returned (None, latency): retry = 0 runs, then
               \* ticker['last'] raises TypeError, caught by the except branch
               /\ latencies' = ml.latencies /\ metrics_log' = ml.metrics_log
               /\ retry' = 0
               /\ pc' = "sleep_err" /\ wait' = BackoffWait(0)
               /\ last' = [op |-> "fail", fetch_raised |-> TRUE, ml_raised |-> "",
                           ml_returned |-> TRUE, price |-> 0, ret |-> None,
                           signal |-> FALSE, called |-> FALSE, retry_before |-> retry]
               /\ UNCHANGED <<engine_vars, tracker, transaction_times, memory_samples,
                              trades, initial_memory, uptime_log, trades_log, hb_due,
                              start_time, run_vars, state, now, ticks>>

\* FailedIteration within the bounds on the attempts followed.
FetchRaises ==
    /\ polls < MaxPolls /\ Len(latencies) < MaxSamples
    /\ FailedIteration

\* asyncio.sleep(delay) of the else branch ends: the next iteration starts its fetch.
WakeAfterSuccess ==
    /\ UNCHANGED dash_vars
    /\ run = "running" /\ pc = "sleep_ok"
    /\ pc' = "fetch" /\ start_time' = now
    /\ UNCHANGED <<engine_vars, tracker_vars, retry, wait, run_vars, state, env_vars>>

\* asyncio.sleep of the except branch ends: retry += 1, then the next iteration.
WakeAfterFailure ==
    /\ UNCHANGED dash_vars
    /\ run = "running" /\ pc = "sleep_err"
    /\ retry' = retry + 1
    /\ pc' = "fetch" /\ start_time' = now
    /\ UNCHANGED <<engine_vars, tracker_vars, wait, run_vars, state, env_vars>>

\* ------------------------------------------------------- engine.py: run_live

\* print_metrics_report: asyncio.sleep(3600) ends and the report is printed.  When
\* get_report raises, the task ends with the exception and so does run_until_complete.
\* The hour is longer than load_markets with the first fetch attempt (polls > 0)
\* and than one step of the clock (now > 0).
HourlyReport ==
    /\ UNCHANGED dash_vars
    /\ run = "running" /\ rpc = "sleep" /\ polls > 0 /\ now > 0
    /\ reports < MaxReports
    /\ IF get_report.raised # "" THEN rpc' = "failed" /\ run' = "crashed" /\ reports' = reports
       ELSE reports' = reports + 1 /\ UNCHANGED <<rpc, run>>
    /\ UNCHANGED <<engine_vars, tracker_vars, poller_vars, state, env_vars>>

\* KeyboardInterrupt reaches run_until_complete: the final report, then every task
\* is cancelled and awaited, and the loop is closed.  When get_report raises, the
\* exception leaves the handler before any task is cancelled.
Interrupt ==
    /\ UNCHANGED dash_vars
    /\ run = "running"
    /\ IF tracker /\ get_report.raised # "" THEN
           /\ run' = "shutdown_failed"
           /\ UNCHANGED <<pc, rpc, reports>>
       ELSE
           /\ run' = "cancelled"
           /\ reports' = IF tracker THEN reports + 1 ELSE reports
           /\ pc' = "cancelled"
           /\ rpc' = IF tracker THEN "cancelled" ELSE rpc
    /\ UNCHANGED <<engine_vars, tracker_vars, retry, wait, start_time, state, env_vars>>

\* ------------------------------------------ metrics.py: the uptime thread

\* The heartbeat written by the poller task between two sleeps, not by a thread.
Heartbeat_in_poller ==
    /\ UNCHANGED dash_vars
    /\ run = "running" /\ tracker /\ now >= hb_due /\ pc = "fetch"
    /\ uptime_log' = Append(uptime_log, UptimeLine(now))
    /\ hb_due' = now + HeartbeatInterval
    /\ UNCHANGED <<engine_vars, tracker, latencies, transaction_times, memory_samples,
                   trades, initial_memory, metrics_log, trades_log, poller_vars,
                   run_vars, state, env_vars>>

\* _uptime_logger: log_uptime(), then time.sleep(interval).  The thread is a daemon:
\* it is followed until the run ends.
Heartbeat ==
    /\ UNCHANGED dash_vars
    /\ run = "running" /\ tracker /\ now >= hb_due
    /\ uptime_log' = Append(uptime_log, UptimeLine(now))
    /\ hb_due' = now + HeartbeatInterval
    /\ UNCHANGED <<engine_vars, tracker, latencies, transaction_times, memory_samples,
                   trades, initial_memory, metrics_log, trades_log, poller_vars,
                   run_vars, state, env_vars>>

\* Time passes; a due heartbeat is written before the clock moves on.  The clock is
\* followed until the run ends.
Tick ==
    /\ UNCHANGED dash_vars
    /\ run = "running" /\ ticks < MaxTicks
    /\ tracker => now < hb_due
    /\ now' = now + HeartbeatInterval /\ ticks' = ticks + 1
    /\ UNCHANGED <<engine_vars, tracker_vars, poller_vars, run_vars, state, polls,
                   streak, last, opened_at, snapshot>>

Next ==
    \/ LoadMarketsReturns
    \/ LoadMarketsRaises
    \/ \E price \in Prices : FetchReturns(price)
    \/ FetchRaises
    \/ WakeAfterSuccess
    \/ WakeAfterFailure
    \/ HourlyReport
    \/ Interrupt
    \/ Heartbeat
    \/ Tick

Spec == Init /\ [][Next]_vars

\* ------------------------------------- calculate_metrics on persisted logs

\* The log directory outlives a run: uptime_log.txt and trade_history.csv are opened
\* for append and never truncated, so a tracker is constructed over whatever the
\* files hold.  LogLines and LogRows are the lines the files may hold when the
\* tracker is built; MaxLines bounds their number.
MaxLines == 3
MaxCalls == 2
LogLines == {[wf |-> TRUE, ts |-> 0], [wf |-> TRUE, ts |-> 60],
             [wf |-> TRUE, ts |-> 120], [wf |-> TRUE, ts |-> 240],
             [wf |-> FALSE, ts |-> 0]}
LogRows == {[wf |-> TRUE, timestamp |-> 0, price |-> 2, position |-> 1, pnl |-> 0,
             type |-> "ENTRY"],
            [wf |-> TRUE, timestamp |-> 86400, price |-> 1, position |-> 0, pnl |-> -1,
             type |-> "EXIT"],
            [wf |-> FALSE, timestamp |-> 0, price |-> 0, position |-> 0, pnl |-> 0,
             type |-> "EXIT"]}

SeqsUpTo(S, n) == UNION {[1..k -> S] : k \in 0..n}

\* A tracker just constructed over existing log files, with the samples of a few
\* poll attempts; the engine has not traded in this run.
InitMetrics ==
    /\ \E w \in Windows : fast = w[1] /\ slow = w[2]
    /\ prices = <<>> /\ position = 0 /\ entry_price = 0 /\ pnl = 0
    /\ tracker = TRUE
    /\ latencies \in SeqsUpTo({[latency |-> 0, success |-> TRUE],
                               [latency |-> 60, success |-> FALSE]}, 1)
    /\ transaction_times = <<>> /\ trades = <<>>
    /\ \E m \in MemoryReadings : initial_memory = m /\ memory_samples = <<m>>
    /\ uptime_log \in SeqsUpTo(LogLines, MaxLines)
    /\ trades_log \in SeqsUpTo(LogRows, 2)
    /\ metrics_log = <<>> /\ hb_due = 0
    /\ pc = "load" /\ retry = 0 /\ wait = 0 /\ start_time = 0
    /\ run = "running" /\ rpc = "sleep" /\ reports = 0
    /\ state = [price |-> 0, fast_ma |-> [sum |-> 0, n |-> 1],
                slow_ma |-> [sum |-> 0, n |-> 1], position |-> 0, pnl |-> 0]
    /\ now = 0 /\ ticks = 0 /\ polls = 0 /\ streak = 0
    /\ last = [op |-> "none", fetch_raised |-> FALSE, ml_raised |-> "",
               ml_returned |-> FALSE, called |-> FALSE, price |-> 0, ret |-> None,
               signal |-> FALSE, retry_before |-> 0]
    /\ opened_at = 0
    /\ snapshot = [raised |-> "", metrics |-> EmptyDict, n |-> 0]
    /\ rd = "none" /\ shown = state /\ published = {state}

\* calculate_metrics() writing what it computed to metrics_log.json, as
\* _save_metrics does.
CalculateMetrics_saving ==
    /\ UNCHANGED dash_vars
    /\ tracker /\ snapshot.n < MaxCalls
    /\ snapshot' = [raised |-> calculate_metrics.raised,
                    metrics |-> calculate_metrics.metrics, n |-> snapshot.n + 1]
    /\ metrics_log' = IF calculate_metrics.raised = ""
                      THEN <<[timestamp |-> now, metrics |-> calculate_metrics.metrics]>>
                      ELSE metrics_log
    /\ UNCHANGED <<engine_vars, tracker, latencies, transaction_times, memory_samples,
                   trades, initial_memory, uptime_log, trades_log, hb_due, poller_vars,
                   run_vars, state, now, ticks, polls, streak, last, opened_at>>

\* A call of calculate_metrics(); snapshot keeps what it returned or raised, and
\* n counts the calls made.
CalculateMetrics ==
    /\ UNCHANGED dash_vars
    /\ tracker /\ snapshot.n < MaxCalls
    /\ snapshot' = [raised |-> calculate_metrics.raised,
                    metrics |-> calculate_metrics.metrics, n |-> snapshot.n + 1]
    /\ UNCHANGED <<engine_vars, tracker_vars, poller_vars, run_vars, state, now, ticks,
                   polls, streak, last, opened_at>>

NextMetrics == CalculateMetrics

SpecMetrics == InitMetrics /\ [][NextMetrics]_vars

\* ------------------------------------------ a tracker that has recorded trades

MaxTrades == 4
TxTimes == {10, 50, 70, 80, 90, 130}

\* The quotes 1, 2, 1, 2, ... : with windows 1 and 2 every quote after the first
\* changes the position (long at 2, flat at 1).
QuoteAt(i) == IF i % 2 = 1 THEN 1 ELSE 2

\* The run after load_markets and Len(times) + 1 successful iterations on the quotes
\* QuoteAt(1), QuoteAt(2), ... in a fresh log directory, the i-th transaction being
\* logged at time.time() = times[i]; the poller is in the sleep that ends the last
\* iteration, and the heartbeats written up to that time are in the uptime log.
InitTraded ==
    \E times \in SeqsUpTo(TxTimes, MaxTrades) :
        LET n == Len(times)
            t_last == IF n = 0 THEN 0 ELSE times[n]
            w == IF n = 0 THEN <<QuoteAt(1)>> ELSE <<QuoteAt(n), QuoteAt(n + 1)>>
            row(i) == Transaction([price |-> QuoteAt(i + 1), is_entry |-> i % 2 = 1,
                                   position |-> i % 2, pnl |-> 0 - (i \div 2)],
                                  times[i])
            ret == IF n = 0 THEN None
                   ELSE [price |-> QuoteAt(n + 1), fast_ma |-> Mean(LastN(w, 1)),
                         slow_ma |-> Mean(w), position |-> n % 2,
                         pnl |-> 0 - (n \div 2)]
        IN  /\ \A i \in 1..(n - 1) : times[i] <= times[i + 1]
            /\ fast = 1 /\ slow = 2
            /\ prices = w /\ position = n % 2 /\ pnl = 0 - (n \div 2)
            /\ entry_price = (IF n = 0 THEN 0 ELSE QuoteAt(2))
            /\ tracker = TRUE
            /\ latencies = [i \in 1..(n + 1) |-> [latency |-> 0, success |-> TRUE]]
            /\ transaction_times = times
            /\ trades = [i \in 1..n |-> row(i)]
            /\ trades_log = [i \in 1..n |-> row(i)]
            /\ \E m \in MemoryReadings :
                  initial_memory = m /\ memory_samples = [i \in 1..(n + 2) |-> m]
            /\ uptime_log = [i \in 1..(t_last \div HeartbeatInterval + 1) |->
                                UptimeLine((i - 1) * HeartbeatInterval)]
            /\ hb_due = (t_last \div HeartbeatInterval + 1) * HeartbeatInterval
            /\ metrics_log = <<>>
            /\ pc = "sleep_ok" /\ retry = 0 /\ wait = delay /\ start_time = t_last
            /\ run = "running" /\ rpc = "sleep" /\ reports = 0
            /\ state = (IF n = 0
                        THEN [price |-> 0, fast_ma |-> [sum |-> 0, n |-> 1],
                              slow_ma |-> [sum |-> 0, n |-> 1], position |-> 0,
                              pnl |-> 0]
                        ELSE ret)
            /\ now = t_last /\ ticks = 0 /\ polls = n + 1 /\ streak = 0
            /\ last = [op |-> "ok", fetch_raised |-> FALSE, ml_raised |-> "",
                       ml_returned |-> TRUE, called |-> TRUE, price |-> QuoteAt(n + 1),
                       ret |-> ret, signal |-> n > 0, retry_before |-> 0]
            /\ opened_at = (IF n = 0 THEN 0 ELSE QuoteAt(2))
            /\ snapshot = [raised |-> "", metrics |-> EmptyDict, n |-> 0]
            /\ rd = "none" /\ shown = state /\ published = {state}

SpecTraded == InitTraded /\ [][NextMetrics]_vars

\* ------------------------------------------------ dashline.py: the dashboard

\* The script thread starts the engine with run_live(symbol, update_state,
\* enable_metrics=True), which runs it on a thread of its own, and enters the
\* update loop.
InitDash ==
    /\ fast = 1 /\ slow = 2
    /\ prices = <<>> /\ position = 0 /\ entry_price = 0 /\ pnl = 0
    /\ tracker = TRUE
    /\ latencies = <<>> /\ transaction_times = <<>> /\ trades = <<>>
    /\ \E m \in MemoryReadings : initial_memory = m /\ memory_samples = <<m>>
    /\ uptime_log = <<>> /\ metrics_log = <<>> /\ trades_log = <<>> /\ hb_due = 0
    /\ pc = "load" /\ retry = 0 /\ wait = 0 /\ start_time = 0
    /\ run = "running" /\ rpc = "sleep" /\ reports = 0
    /\ state = [price |-> 0, fast_ma |-> [sum |-> 0, n |-> 1],
                slow_ma |-> [sum |-> 0, n |-> 1], position |-> 0, pnl |-> 0]
    /\ now = 0 /\ ticks = 0 /\ polls = 0 /\ streak = 0
    /\ last = [op |-> "none", fetch_raised |-> FALSE, ml_raised |-> "",
               ml_returned |-> FALSE, called |-> FALSE, price |-> 0, ret |-> None,
               signal |-> FALSE, retry_before |-> 0]
    /\ opened_at = 0
    /\ snapshot = [raised |-> "", metrics |-> EmptyDict, n |-> 0]
    /\ rd = "price" /\ shown = state /\ published = {state}

\* The order in which one pass of the update loop reads the dictionary.
AfterRead == [price |-> "fast_ma", fast_ma |-> "slow_ma", slow_ma |-> "position",
              position |-> "pnl", pnl |-> "sleep"]

\* One of the five statements box.metric(..., state[key]) of the update loop: the
\* dictionary is subscripted at that moment and the value put on the page.
RenderField ==
    /\ rd \in DOMAIN AfterRead
    /\ shown' = [shown EXCEPT ![rd] = state[rd]]
    /\ rd' = AfterRead[rd]
    /\ UNCHANGED <<engine_vars, tracker_vars, poller_vars, run_vars, state, env_vars,
                   published>>

\* The rest of the pass and time.sleep(1); the next pass starts.
RenderSleep ==
    /\ rd = "sleep"
    /\ rd' = "price"
    /\ UNCHANGED <<engine_vars, tracker_vars, poller_vars, run_vars, state, env_vars,
                   shown, published>>

\* The engine thread cannot receive KeyboardInterrupt, so Interrupt is left out.
NextDash ==
    \/ LoadMarketsReturns
    \/ LoadMarketsRaises
    \/ \E price \in Prices : FetchReturns(price)
    \/ FetchRaises
    \/ WakeAfterSuccess
    \/ WakeAfterFailure
    \/ HourlyReport
    \/ Heartbeat
    \/ Tick
    \/ RenderField
    \/ RenderSleep

SpecDash == InitDash /\ [][NextDash]_vars

\* ------------------------------------------- a run on a fixed quote sequence

ExamplePrices == <<5, 5, 5, 4, 3, 6>>

\* A fresh engine with windows 2 and 3, run with or without metrics.
InitExample ==
    /\ fast = 2 /\ slow = 3
    /\ prices = <<>> /\ position = 0 /\ entry_price = 0 /\ pnl = 0
    /\ tracker \in BOOLEAN
    /\ latencies = <<>> /\ transaction_times = <<>> /\ trades = <<>>
    /\ \E m \in MemoryReadings :
          /\ initial_memory = m
          /\ memory_samples = IF tracker THEN <<m>> ELSE <<>>
    /\ uptime_log = <<>> /\ metrics_log = <<>> /\ trades_log = <<>> /\ hb_due = 0
    /\ pc = "load" /\ retry = 0 /\ wait = 0 /\ start_time = 0
    /\ run = "running" /\ rpc = (IF tracker THEN "sleep" ELSE "none") /\ reports = 0
    /\ state = [price |-> 0, fast_ma |-> [sum |-> 0, n |-> 1],
                slow_ma |-> [sum |-> 0, n |-> 1], position |-> 0, pnl |-> 0]
    /\ now = 0 /\ ticks = 0 /\ polls = 0 /\ streak = 0
    /\ last = [op |-> "none", fetch_raised |-> FALSE, ml_raised |-> "",
               ml_returned |-> FALSE, called |-> FALSE, price |-> 0, ret |-> None,
               signal |-> FALSE, retry_before |-> 0]
    /\ opened_at = 0
    /\ snapshot = [raised |-> "", metrics |-> EmptyDict, n |-> 0]
    /\ rd = "none" /\ shown = state /\ published = {state}

\* Every fetch returns, and the k-th returns the k-th quote of ExamplePrices.
NextExample ==
    \/ LoadMarketsReturns
    \/ LoadMarketsRaises
    \/ polls < Len(ExamplePrices) /\ Iteration(ExamplePrices[polls + 1])
    \/ WakeAfterSuccess
    \/ HourlyReport
    \/ Interrupt
    \/ Heartbeat
    \/ Tick

SpecExample == InitExample /\ [][NextExample]_vars

\* ------------------------------------- a run close to its hundredth sample

Prefilled == 98

\* metrics_log.json as an earlier run left it at its hundredth sample.
OldDocument ==
    [timestamp |-> 0,
     metrics |-> calculate_metrics_of(
                     [i \in 1..SaveEvery |-> [latency |-> 0, success |-> FALSE]],
                     <<4>>, 4, <<>>, <<UptimeLine(0)>>, <<>>).metrics]

\* A run with metrics, windows 1 and 2, after load_markets and Prefilled
\* iterations that all fetched the quote 1 (the engine holds, nothing is logged),
\* three minutes after its start at time 60; the poller starts its next fetch.
\* The log directory was empty at the start, or held the uptime line and the
\* metrics document of an earlier run.
InitPersist ==
    \E old \in BOOLEAN :
        /\ fast = 1 /\ slow = 2
        /\ prices = <<1, 1>> /\ position = 0 /\ entry_price = 0 /\ pnl = 0
        /\ tracker = TRUE
        /\ latencies = [i \in 1..Prefilled |-> [latency |-> 0, success |-> TRUE]]
        /\ transaction_times = <<>> /\ trades = <<>> /\ trades_log = <<>>
        /\ \E m \in MemoryReadings :
              initial_memory = m /\ memory_samples = [i \in 1..(Prefilled + 1) |-> m]
        /\ uptime_log = (IF old THEN <<UptimeLine(0)>> ELSE <<>>)
                           \o <<UptimeLine(60), UptimeLine(120), UptimeLine(180)>>
        /\ metrics_log = (IF old THEN <<OldDocument>> ELSE <<>>)
        /\ hb_due = 240 /\ now = 180 /\ ticks = 0
        /\ pc = "fetch" /\ retry = 0 /\ wait = delay /\ start_time = 180
        /\ run = "running" /\ rpc = "sleep" /\ reports = 0
        /\ state = [price |-> 1, fast_ma |-> Mean(<<1>>), slow_ma |-> Mean(<<1, 1>>),
                    position |-> 0, pnl |-> 0]
        /\ polls = Prefilled /\ streak = 0
        /\ last = [op |-> "ok", fetch_raised |-> FALSE, ml_raised |-> "",
                   ml_returned |-> TRUE, called |-> TRUE, price |-> 1,
                   ret |-> state, signal |-> FALSE, retry_before |-> 0]
        /\ opened_at = 0
        /\ snapshot = [raised |-> "", metrics |-> EmptyDict, n |-> 0]
        /\ rd = "none" /\ shown = state /\ published = {state}

\* The poller, the uptime thread and the clock, for MaxSamples more attempts.
NextPersist ==
    \/ \E price \in Prices : polls < Prefilled + MaxSamples /\ Iteration(price)
    \/ polls < Prefilled + MaxSamples /\ FailedIteration
    \/ WakeAfterSuccess
    \/ WakeAfterFailure
    \/ Heartbeat
    \/ Tick

SpecPersist == InitPersist /\ [][NextPersist]_vars

\* ------------------------------- an engine built with fast >= slow

\* __init__ checks nothing: every pair of positive windows builds an engine.
DegenerateWindows == {<<1, 1>>, <<2, 2>>, <<3, 2>>, <<2, 1>>}

InitDegenerate ==
    /\ \E w \in DegenerateWindows : fast = w[1] /\ slow = w[2]
    /\ prices = <<>> /\ position = 0 /\ entry_price = 0 /\ pnl = 0
    /\ tracker \in BOOLEAN
    /\ latencies = <<>> /\ transaction_times = <<>> /\ trades = <<>>
    /\ \E m \in MemoryReadings :
          /\ initial_memory = m
          /\ memory_samples = IF tracker THEN <<m>> ELSE <<>>
    /\ uptime_log = <<>> /\ metrics_log = <<>> /\ trades_log = <<>> /\ hb_due = 0
    /\ pc = "load" /\ retry = 0 /\ wait = 0 /\ start_time = 0
    /\ run = "running" /\ rpc = (IF tracker THEN "sleep" ELSE "none") /\ reports = 0
    /\ state = [price |-> 0, fast_ma |-> [sum |-> 0, n |-> 1],
                slow_ma |-> [sum |-> 0, n |-> 1], position |-> 0, pnl |-> 0]
    /\ now = 0 /\ ticks = 0 /\ polls = 0 /\ streak = 0
    /\ last = [op |-> "none", fetch_raised |-> FALSE, ml_raised |-> "",
               ml_returned |-> FALSE, called |-> FALSE, price |-> 0, ret |-> None,
               signal |-> FALSE, retry_before |-> 0]
    /\ opened_at = 0
    /\ snapshot = [raised |-> "", metrics |-> EmptyDict, n |-> 0]
    /\ rd = "none" /\ shown = state /\ published = {state}

SpecDegenerate == InitDegenerate /\ [][Next]_vars

\* ================================================================ properties

\* C1.  In the poller loop, with or without a tracker, the wait after the k-th
\* consecutive fetch failure (k = 0, 1, 2, ...) is delay * 2^min(k, max_retries):
\* 1, 2, 4 for three failures in a row, 1 again after a success, and never more
\* than delay * 2^max_retries.  streak counts the failures in a row up to and
\* including the one being waited for, so k = streak - 1.
C1_BackoffSchedule ==
    (pc = "sleep_err" /\ last.fetch_raised) =>
        wait = delay * Pow2(Min(streak - 1, max_retries))

\* C2.  The failure counter is zeroed only by an iteration whose fetch succeeded:
\* an iteration whose fetch raised ends with the counter one above what it was
\* when the iteration began.
C2_FailureIncrementsCounter ==
    [][(pc = "sleep_err" /\ last.fetch_raised /\ pc' = "fetch")
          => retry' = last.retry_before + 1]_vars

\* C3.  Once the window holds slow prices, every on_price call applies exactly the
\* transition table: FLAT opens LONG on fast > slow and SHORT on fast < slow, both
\* with entry_price = price, and stays FLAT on equality; LONG closes on fast < slow
\* and otherwise holds; SHORT closes on fast > slow and otherwise holds.  No call
\* moves between LONG and SHORT, and position is always -1, 0 or 1.
C3_TransitionTable ==
    [][(polls' = polls + 1 /\ last'.called /\ Len(prices') >= slow) =>
          LET price == last'.price
              f == Mean(LastN(prices', fast))
              s == Mean(prices')
          IN  /\ (position = 0 /\ MeanGT(f, s)) => (position' = 1 /\ entry_price' = price)
              /\ (position = 0 /\ MeanLT(f, s)) => (position' = -1 /\ entry_price' = price)
              /\ (position = 0 /\ MeanEQ(f, s)) => position' = 0
              /\ (position = 1 /\ MeanLT(f, s)) => position' = 0
              /\ (position = 1 /\ ~MeanLT(f, s)) => position' = 1
              /\ (position = -1 /\ MeanGT(f, s)) => position' = 0
              /\ (position = -1 /\ ~MeanGT(f, s)) => position' = -1
              /\ ~(position = 1 /\ position' = -1)
              /\ ~(position = -1 /\ position' = 1)
              /\ position' \in {-1, 0, 1}]_vars

\* A call on a full window has just closed a position.
C3_Witness ==
    last.called /\ last.signal /\ Len(prices) >= slow /\ position = 0

\* C4.  While fewer than slow prices have been fed, an on_price call returns
\* nothing, position stays FLAT, pnl and entry_price are unchanged, no transaction
\* is recorded, and the engine changes only in that the price is buffered.
C4_WarmUp ==
    [][(polls' = polls + 1 /\ last'.called /\ Len(prices) + 1 < slow) =>
          /\ last'.ret = None
          /\ position = 0 /\ position' = 0
          /\ pnl' = pnl /\ entry_price' = entry_price
          /\ trades' = trades /\ trades_log' = trades_log
          /\ transaction_times' = transaction_times
          /\ prices' = Append(prices, last'.price)
          /\ state' = state]_vars

\* Two prices are buffered in a window of three and the last call returned nothing.
C4_Witness ==
    last.called /\ last.ret = None /\ Len(prices) = 2 /\ Len(prices) < slow

\* C5.  pnl changes only in an on_price call that closes a position, by
\* price - entry when it closes LONG and entry - price when it closes SHORT, entry
\* being the price of the call that opened the position; every other step leaves
\* pnl as it is.
C5_PnlOnlyOnClose ==
    [][IF polls' = polls + 1 /\ last'.called /\ position # 0 /\ position' = 0
       THEN pnl' = pnl + (IF position = 1 THEN last'.price - opened_at
                                           ELSE opened_at - last'.price)
       ELSE pnl' = pnl]_vars

\* A close has just realized a non-zero amount.
C5_Witness ==
    last.called /\ last.signal /\ position = 0 /\ pnl # 0

\* C6.  measure_latency propagates the failure of the wrapped operation: when the
\* fetch raised, measure_latency does not return normally.
C6_FailurePropagates ==
    (tracker /\ last.fetch_raised) => ~last.ml_returned

\* C7.  With a tracker attached, every poll attempt appends exactly one latency
\* sample, whose success flag is true exactly when the fetch did not raise, and no
\* other step touches the samples: the samples are as many as the attempts.
C7_OneSamplePerAttempt ==
    [][tracker =>
          /\ Len(latencies) = polls
          /\ IF polls' = polls + 1
             THEN /\ Len(latencies') = Len(latencies) + 1
                  /\ SubSeq(latencies', 1, Len(latencies)) = latencies
                  /\ latencies'[Len(latencies')].success = ~last'.fetch_raised
             ELSE latencies' = latencies]_vars

\* Samples of a successful and of a failed attempt have been recorded.
C7_Witness ==
    /\ tracker /\ Len(latencies) = polls
    /\ \E i, j \in 1..Len(latencies) : latencies[i].success /\ ~latencies[j].success

\* C8.  With a tracker attached, an on_price call that changes position appends
\* exactly one transaction record, ENTRY when it opens a position and EXIT when it
\* closes one, carrying the new position; no other step changes the transaction
\* lists or the trade-history file, so records once logged stay as they are.
C8_OneRecordPerPositionChange ==
    [][tracker =>
          IF position' # position
          THEN /\ polls' = polls + 1 /\ last'.called
               /\ Len(trades') = Len(trades) + 1
               /\ SubSeq(trades', 1, Len(trades)) = trades
               /\ trades'[Len(trades')].type = (IF position = 0 THEN "ENTRY" ELSE "EXIT")
               /\ trades'[Len(trades')].position = position'
               /\ trades_log' = Append(trades_log, trades'[Len(trades')])
               /\ Len(transaction_times') = Len(transaction_times) + 1
               /\ SubSeq(transaction_times', 1, Len(transaction_times)) = transaction_times
          ELSE /\ trades' = trades /\ trades_log' = trades_log
               /\ transaction_times' = transaction_times]_vars

\* An ENTRY and then an EXIT have been logged.
C8_Witness ==
    /\ tracker /\ Len(trades) >= 2
    /\ trades[1].type = "ENTRY" /\ trades[2].type = "EXIT"

\* C9.  Once market loading has succeeded the run does not stop on its own: it
\* ends only by a startup failure or by cancellation, whatever fetches fail or
\* succeed and whatever reports are emitted.
C9_RunEndsOnlyByStartupFailureOrCancel ==
    run \in {"running", "startup_failed", "cancelled", "shutdown_failed"}

\* C10.  calculate_metrics never raises, whatever the logs hold: a malformed
\* uptime line, heartbeats with equal first and last timestamps, a malformed
\* trade-history file.
C10_NeverRaises ==
    snapshot.raised = ""

\* C11.  For every uptime log with at least two heartbeats uptime_percentage lies
\* in [0, 100]; it is 100 when the heartbeats are exactly one interval apart, and
\* 50 when they are half as many as the intervals the observed duration holds.
\* With fewer than two heartbeats it is 0.
C11_UptimeBounds ==
    (snapshot.n > 0 /\ \A i \in 1..Len(uptime_log) : uptime_log[i].wf) =>
        LET n == Len(uptime_log)
            duration == uptime_log[n].ts - uptime_log[1].ts
            up == snapshot.metrics["uptime_percentage"]
        IN  /\ snapshot.raised = ""
            /\ "uptime_percentage" \in DOMAIN snapshot.metrics
            /\ n < 2 => up.num = 0
            /\ n >= 2 =>
                  /\ 0 <= up.num /\ up.num <= 100 * up.den
                  /\ (\A i \in 1..(n - 1) :
                          uptime_log[i + 1].ts - uptime_log[i].ts = HeartbeatInterval)
                        => up.num = 100 * up.den
                  /\ (2 * n * HeartbeatInterval = duration) => up.num = 50 * up.den

\* C12.  peak_transactions_per_minute is the largest number of transactions in one
\* of the 60-second buckets aligned to absolute time ([0,60), [60,120), ...); so
\* three transactions in one aligned bucket and a fourth in an adjacent one give 3.
C12_PeakAlignedBuckets ==
    (snapshot.n > 0 /\ transaction_times # <<>>) =>
        LET InBucket(b) == {i \in 1..Len(transaction_times) :
                                transaction_times[i] \div window_size = b}
            Buckets == {transaction_times[i] \div window_size :
                            i \in 1..Len(transaction_times)}
        IN  /\ "peak_transactions_per_minute" \in DOMAIN snapshot.metrics
            /\ \A b \in Buckets :
                   Cardinality(InBucket(b)) <=
                       snapshot.metrics["peak_transactions_per_minute"]
            /\ \E b \in Buckets :
                   Cardinality(InBucket(b)) =
                       snapshot.metrics["peak_transactions_per_minute"]

\* C13.  The five values the dashboard loop has put on the page when a pass is
\* complete (price, fast_ma, slow_ma, position, pnl) are together one value the
\* dictionary has held, i.e. all come from the same published result, whatever the
\* interleaving with the engine thread's update_state calls.
C13_SnapshotAtomic ==
    rd = "sleep" => shown \in published

\* C14.  Whenever a run with a tracker is cancelled (KeyboardInterrupt), at any
\* point, the final report is produced, the poller and the report task are
\* cancelled, and the recorded latency, memory and transaction data are kept.
C14_CancelFlushesReport ==
    [][(tracker /\ run = "running" /\ run' \in {"cancelled", "shutdown_failed"}) =>
           /\ run' = "cancelled" /\ pc' = "cancelled" /\ rpc' = "cancelled"
           /\ reports' = reports + 1
           /\ UNCHANGED <<latencies, memory_samples, transaction_times, trades,
                          trades_log, uptime_log, metrics_log>>]_vars

\* C15.  Windows 2 and 3 and the prices 5, 5, 5, 4, 3, 6 fed to a fresh engine:
\* calls 1 and 2 return nothing; after the 3rd price the position is flat and no
\* transaction was made; after the 4th it is short with entry_price 4; after the
\* 5th it is still short; after the 6th it is flat and pnl is -2.
C15_WorkedExample ==
    LET k == polls IN
    (fast = 2 /\ slow = 3 /\ last.called /\ k \in 1..Len(ExamplePrices)) =>
        /\ k \in {1, 2} => last.ret = None /\ position = 0 /\ pnl = 0
        /\ k = 3 => last.ret # None /\ position = 0 /\ ~last.signal /\ pnl = 0
        /\ k = 4 => position = -1 /\ entry_price = 4 /\ last.signal /\ pnl = 0
        /\ k = 5 => position = -1 /\ entry_price = 4 /\ ~last.signal /\ pnl = 0
        /\ k = 6 => position = 0 /\ pnl = -2 /\ last.signal

\* All six prices have been fed.
C15_Witness ==
    fast = 2 /\ slow = 3 /\ polls = Len(ExamplePrices) /\ last.called /\ last.price = 6

\* C16.  measure_latency recomputes and persists the metrics exactly when the
\* number of latency samples becomes a multiple of 100, failed attempts counting
\* like successful ones, and at no other sample; the persist replaces the metrics
\* log by a single document computed from the samples so far, the new one included.
C16_PersistEveryHundredth ==
    [][LET n == Len(latencies')
           succ == Cardinality({i \in 1..n : latencies'[i].success})
       IN  IF tracker /\ n = Len(latencies) + 1 /\ n % SaveEvery = 0 THEN
               /\ Len(metrics_log') = 1
               /\ metrics_log'[1].timestamp = now
               /\ metrics_log'[1].metrics =
                      calculate_metrics_of(latencies', memory_samples, initial_memory,
                                           transaction_times, uptime_log,
                                           trades_log).metrics
               /\ metrics_log'[1].metrics["success_rate"] = Frac(succ * 100, n)
           ELSE metrics_log' = metrics_log]_vars

\* The hundredth sample has been recorded, by a failed attempt, over the document
\* of an earlier run.
C16_Witness ==
    /\ Len(latencies) = SaveEvery /\ ~latencies[SaveEvery].success
    /\ Len(metrics_log) = 1 /\ metrics_log[1].timestamp = now /\ now > 0
    /\ uptime_log[1].ts = 0

\* C17.  The heartbeats do not depend on the poller.  While the run lasts, a due
\* heartbeat can be written whatever the poller is doing (fetching, sleeping after
\* a success, sleeping in a backoff wait with any failure counter); the lines of
\* the uptime log are one interval apart, starting when the tracker is built; and
\* writing one changes neither another tracker collection or file nor the poller.
C17_HeartbeatIndependent ==
    /\ [](/\ (tracker /\ run = "running" /\ now >= hb_due) => ENABLED Heartbeat
          /\ \A i \in 1..(Len(uptime_log) - 1) :
                 uptime_log[i + 1].ts - uptime_log[i].ts = HeartbeatInterval
          /\ (tracker /\ run = "running" /\ now < hb_due) =>
                 /\ Len(uptime_log) = now \div HeartbeatInterval + 1
                 /\ uptime_log[Len(uptime_log)].ts = now)
    /\ [][uptime_log' # uptime_log =>
              /\ uptime_log' = Append(uptime_log, UptimeLine(now))
              /\ UNCHANGED <<latencies, memory_samples, transaction_times, trades,
                             initial_memory, trades_log, metrics_log, poller_vars,
                             polls, streak>>]_vars

\* The second heartbeat is in the log while the poller sits in the backoff wait
\* after its second failure in a row.
C17_Witness ==
    /\ tracker /\ run = "running" /\ pc = "sleep_err" /\ streak >= 2
    /\ Len(uptime_log) = 2 /\ uptime_log[2].ts = HeartbeatInterval

\* C18.  The value the Sharpe ratio sums for a day is the realized pnl of that day:
\* for each position closed that day the amount its close added to pnl, and 0 for
\* each opening transaction; so the values of all days add up to the engine's pnl.
C18_DailyRealizedPnl ==
    (snapshot.n > 0 /\ trades_log # <<>>) =>
        LET daily == snapshot.metrics["sharpe_ratio"].daily
            Day(i) == trades_log[i].timestamp \div SecondsPerDay
            Delta(i) == IF trades_log[i].type = "EXIT"
                        THEN trades_log[i].pnl -
                                 (IF i = 1 THEN 0 ELSE trades_log[i - 1].pnl)
                        ELSE 0
            DayDelta(d) == Sum([i \in 1..Len(trades_log) |->
                                   IF Day(i) = d THEN Delta(i) ELSE 0])
        IN  /\ "sharpe_ratio" \in DOMAIN snapshot.metrics
            /\ \A k \in 1..Len(daily) : daily[k] = DayDelta(Day(1) + k - 1)
            /\ Sum(daily) = pnl

\* C19.  calculate_metrics only reads: a call leaves the latency list, the memory
\* samples, the transaction lists, the uptime log, the trade history and the
\* metrics log as they were, and a second call with nothing recorded in between
\* has the same outcome as the first.
C19_PureRead ==
    [][snapshot'.n = snapshot.n + 1 =>
           /\ UNCHANGED <<latencies, memory_samples, transaction_times, trades,
                          uptime_log, trades_log, metrics_log>>
           /\ snapshot.n > 0 =>
                  /\ snapshot'.raised = snapshot.raised
                  /\ snapshot'.metrics = snapshot.metrics]_vars

\* Two calls have been made on non-empty samples and logs, and returned.
C19_Witness ==
    /\ snapshot.n = 2 /\ snapshot.raised = ""
    /\ latencies # <<>> /\ Len(uptime_log) >= 2 /\ trades_log # <<>>
    /\ "sharpe_ratio" \in DOMAIN snapshot.metrics

\* C20.  With a tracker attached from a fresh engine the logged records alternate
\* ENTRY, EXIT, ENTRY, ... starting with ENTRY; there is one more ENTRY than EXIT
\* while a position is held and as many when flat; an EXIT record has position 0
\* and an ENTRY record position 1 or -1; and trades and transaction_times have the
\* same length.
C20_RecordsAlternate ==
    tracker =>
        LET Entries == {i \in 1..Len(trades) : trades[i].type = "ENTRY"}
            Exits == {i \in 1..Len(trades) : trades[i].type = "EXIT"}
        IN  /\ \A i \in 1..Len(trades) :
                   trades[i].type = (IF i % 2 = 1 THEN "ENTRY" ELSE "EXIT")
            /\ Cardinality(Entries) - Cardinality(Exits) =
                   (IF position # 0 THEN 1 ELSE 0)
            /\ \A i \in Exits : trades[i].position = 0
            /\ \A i \in Entries : trades[i].position \in {1, -1}
            /\ Len(trades) = Len(transaction_times)

\* An entry, its exit and a second entry are logged and the position is held.
C20_Witness ==
    /\ tracker /\ Len(trades) = 3 /\ position # 0
    /\ trades[2].type = "EXIT" /\ trades[3].type = "ENTRY"

\* C21.  An engine can be built with fast >= slow, and then both averages are taken
\* over the same buffered prices and are equal on every call: whatever the prices,
\* position stays 0, pnl stays 0 and no transaction record is made.
C21_DegenerateWindowsStayFlat ==
    fast >= slow =>
        /\ position = 0 /\ pnl = 0 /\ entry_price = 0
        /\ trades = <<>> /\ transaction_times = <<>> /\ trades_log = <<>>
        /\ ~last.signal
        /\ (last.called /\ last.ret # None) =>
               /\ last.ret.fast_ma = last.ret.slow_ma
               /\ last.ret.slow_ma = Mean(prices)
               /\ last.ret.position = 0 /\ last.ret.pnl = 0

\* With fast > slow and a tracker, a call on a full window of two different prices
\* has returned a result.
C21_Witness ==
    /\ fast > slow /\ tracker /\ last.called /\ last.ret # None
    /\ Len(prices) = 2 /\ prices[1] # prices[2]

====
